---- MODULE Spec2Model ----
(***************************************************************************)
(* Model of the TCP request/response server of src/src/server.rs:          *)
(* Server::new / run / stop, the per-connection Client::handle loop and    *)
(* the protobuf wire format of ClientMessageWrapper / ServerMessageWrapper.*)
(*                                                                         *)
(* Bytes are integers 0..255, byte strings are sequences of bytes.         *)
(* Environment: a send of the peer arrives whole in the connection's       *)
(* receive queue, and one read() returns the first min(queue, 512) bytes.  *)
(* String contents are ASCII.                                              *)
(***************************************************************************)
EXTENDS Integers, Sequences, FiniteSets, TLC

\* ------------------------------------------------------------------ bounds
NumConns == 2      \* peers that may connect
MaxSends == 2      \* messages sent by all peers together
MaxLifeSends == 1  \* the same, in the specification of the server's whole life

\* ------------------------------------------------------- program constants
BufSize == 512     \* let mut buffer = [0; 512]
RecursionLimit == 100  \* prost DecodeContext recursion limit

Conns == 1..NumConns

\* ---------------------------------------------------------------- messages
\* A decoded envelope: ty is "echo", "add" (AddRequest), "addresp"
\* (AddResponse), "none" (no variant populated) or "error" (decode failed).
Msg(ty, content, a, b) == [ty |-> ty, content |-> content, a |-> a, b |-> b]
NoMsg     == Msg("none", <<>>, 0, 0)
DecodeErr == Msg("error", <<>>, 0, 0)
EchoMessage(s)  == Msg("echo", s, 0, 0)
AddRequest(a, b) == Msg("add", <<>>, a, b)
AddResponse(r)  == Msg("addresp", <<>>, r, 0)

I32Max == 2147483647
I32Min == (-2147483647) - 1

Min(x, y) == IF x < y THEN x ELSE y

\* ------------------------------------------------------------ wire: encode
RECURSIVE EncodeVarint(_)
\* prost encode_varint for 0 <= n < 2^31
EncodeVarint(n) ==
    IF n < 128 THEN <<n>> ELSE <<(n % 128) + 128>> \o EncodeVarint(n \div 128)

\* int32 on the wire: the value sign-extended to 64 bits, as a varint
\* (ten bytes for a negative value).  \div and % round toward minus infinity.
EncodeInt32(v) ==
    IF v >= 0 THEN EncodeVarint(v)
    ELSE << (v % 128) + 128,
            ((v \div 128) % 128) + 128,
            ((v \div 16384) % 128) + 128,
            ((v \div 2097152) % 128) + 128,
            ((v \div 268435456) % 128) + 128,
            255, 255, 255, 255, 1 >>

\* key = (tag << 3) | wire type; a field with the default value is omitted
LenField(tag, body) == <<tag * 8 + 2>> \o EncodeVarint(Len(body)) \o body
StringField(tag, s) == IF s = <<>> THEN <<>> ELSE LenField(tag, s)
Int32Field(tag, v)  == IF v = 0 THEN <<>> ELSE <<tag * 8>> \o EncodeInt32(v)

EncodeEchoMessage(m) == StringField(1, m.content)
EncodeAddRequest(m)  == Int32Field(1, m.a) \o Int32Field(2, m.b)
EncodeAddResponse(m) == Int32Field(1, m.a)

\* ClientMessageWrapper::encode_to_vec (the peer's side)
EncodeClient(m) ==
    CASE m.ty = "echo" -> LenField(1, EncodeEchoMessage(m))
      [] m.ty = "add"  -> LenField(2, EncodeAddRequest(m))
      [] OTHER         -> <<>>

\* ServerMessageWrapper::encode_to_vec
EncodeServer(m) ==
    CASE m.ty = "echo"    -> LenField(1, EncodeEchoMessage(m))
      [] m.ty = "addresp" -> LenField(2, EncodeAddResponse(m))
      [] OTHER            -> <<>>

\* ------------------------------------------------------------ wire: decode
IsUtf8(s) == \A i \in 1..Len(s) : s[i] < 128

RECURSIVE VarintFrom(_, _, _)
\* prost decode_varint: at most ten bytes, seven bits each, low group first.
\* g collects the groups read so far.
VarintFrom(b, pos, g) ==
    IF pos > Len(b) THEN [ok |-> FALSE, g |-> g, next |-> pos]
    ELSE IF b[pos] < 128
         THEN [ok |-> ~(Len(g) = 9 /\ b[pos] >= 2), g |-> Append(g, b[pos]),
               next |-> pos + 1]
         ELSE IF Len(g) = 9 THEN [ok |-> FALSE, g |-> g, next |-> pos]
              ELSE VarintFrom(b, pos + 1, Append(g, b[pos] - 128))

ReadVarint(b, pos) == VarintFrom(b, pos, <<>>)

Group(g, i) == IF i <= Len(g) THEN g[i] ELSE 0
Low28(g) == Group(g, 1) + Group(g, 2) * 128 + Group(g, 3) * 16384
            + Group(g, 4) * 2097152
HighZero(g) == \A i \in 5..Len(g) : g[i] = 0
\* a value of 2^28 or more stands for "larger than any buffer or known tag"
Huge == I32Max
VarintSize(g) == IF HighZero(g) THEN Low28(g) ELSE Huge

\* decode of an int32 field: the low 32 bits of the varint, as a signed value
VarintInt32(g) ==
    LET low31 == Low28(g) + (Group(g, 5) % 8) * 268435456
    IN  IF (Group(g, 5) \div 8) % 2 = 1 THEN (low31 - I32Max) - 1 ELSE low31

\* prost decode_key: key <= u32::MAX, wire type <= 5, tag >= 1
KeyOf(v) ==
    [ok |-> /\ v.ok
            /\ Group(v.g, 5) < 16 /\ \A i \in 6..Len(v.g) : v.g[i] = 0
            /\ Group(v.g, 1) % 8 <= 5
            /\ VarintSize(v.g) >= 8,
     tag |-> VarintSize(v.g) \div 8, wt |-> Group(v.g, 1) % 8, next |-> v.next]

ReadKey(b, pos) == KeyOf(ReadVarint(b, pos))

RECURSIVE SkipField(_, _, _, _, _)
RECURSIVE SkipGroup(_, _, _, _)
\* prost skip_field: the position after the field, or 0 when decoding fails.
\* depth is what is left of the recursion limit; v is the varint at pos.
SkipWith(b, pos, wt, tag, depth, v) ==
    IF depth = 0 THEN 0
    ELSE CASE wt = 0 -> IF v.ok THEN v.next ELSE 0
           [] wt = 1 -> IF pos + 8 <= Len(b) + 1 THEN pos + 8 ELSE 0
           [] wt = 5 -> IF pos + 4 <= Len(b) + 1 THEN pos + 4 ELSE 0
           [] wt = 2 -> IF v.ok /\ VarintSize(v.g) <= Len(b) + 1 - v.next
                        THEN v.next + VarintSize(v.g) ELSE 0
           [] wt = 3 -> SkipGroup(b, pos, tag, depth)
           [] OTHER  -> 0

SkipField(b, pos, wt, tag, depth) ==
    SkipWith(b, pos, wt, tag, depth, ReadVarint(b, pos))

\* the loop of a group: n is the position after the field just skipped
SkipGroupNext(b, tag, depth, n) ==
    IF n = 0 THEN 0 ELSE SkipGroup(b, n, tag, depth)

SkipGroupKey(b, tag, depth, k) ==
    IF ~k.ok THEN 0
    ELSE IF k.wt = 4 THEN (IF k.tag = tag THEN k.next ELSE 0)
    ELSE SkipGroupNext(b, tag, depth,
                       SkipField(b, k.next, k.wt, k.tag, depth - 1))

SkipGroup(b, pos, tag, depth) == SkipGroupKey(b, tag, depth, ReadKey(b, pos))

RECURSIVE MergeInner(_, _, _, _, _)
\* string::merge, once the bytes s are read; n is the position after them
MergeString(b, limit, m, depth, n, s) ==
    IF ~IsUtf8(s) THEN DecodeErr
    ELSE MergeInner(b, n, limit, [m EXCEPT !.content = s], depth)

\* a field the message type declares; v is the varint after the key k.
\* EchoMessage has string content = 1, AddRequest int32 a = 1 and b = 2,
\* AddResponse int32 result = 1.
MergeKnown(b, limit, m, depth, k, v) ==
    IF m.ty = "echo"
    THEN IF k.wt # 2 \/ ~v.ok \/ VarintSize(v.g) > Len(b) + 1 - v.next
         THEN DecodeErr
         ELSE MergeString(b, limit, m, depth, v.next + VarintSize(v.g),
                          SubSeq(b, v.next, v.next + VarintSize(v.g) - 1))
    ELSE IF k.wt # 0 \/ ~v.ok THEN DecodeErr
         ELSE MergeInner(b, v.next, limit,
                         IF k.tag = 1 THEN [m EXCEPT !.a = VarintInt32(v.g)]
                                      ELSE [m EXCEPT !.b = VarintInt32(v.g)],
                         depth)

\* an undeclared field, skipped; n is the position after it
MergeSkipped(b, limit, m, depth, n) ==
    IF n = 0 THEN DecodeErr ELSE MergeInner(b, n, limit, m, depth)

MergeField(b, limit, m, depth, k) ==
    IF ~k.ok THEN DecodeErr
    ELSE IF \/ m.ty = "echo" /\ k.tag = 1
            \/ m.ty = "add" /\ k.tag \in {1, 2}
            \/ m.ty = "addresp" /\ k.tag = 1
    THEN MergeKnown(b, limit, m, depth, k, ReadVarint(b, k.next))
    ELSE MergeSkipped(b, limit, m, depth,
                      SkipField(b, k.next, k.wt, k.tag, depth))

\* merge_loop of a nested message m whose bytes end before position limit
MergeInner(b, pos, limit, m, depth) ==
    IF pos = limit THEN m
    ELSE IF pos > limit THEN DecodeErr
    ELSE MergeField(b, limit, m, depth, ReadKey(b, pos))

\* the oneof of each wrapper: tag -> message type
VariantOf(side, tag) ==
    IF tag = 1 THEN "echo" ELSE IF side = "client" THEN "add" ELSE "addresp"

RECURSIVE MergeWrapper(_, _, _, _)
\* the variant merged (r); n is the position after it
WrapperMerged(b, side, n, r) ==
    IF r.ty = "error" THEN DecodeErr ELSE MergeWrapper(b, n, r, side)

\* a oneof field: a second occurrence of the populated variant merges into
\* it, another variant replaces it
WrapperVariant(b, m, side, k, v, ty) ==
    IF k.wt # 2 \/ ~v.ok \/ VarintSize(v.g) > Len(b) + 1 - v.next
    THEN DecodeErr
    ELSE WrapperMerged(b, side, v.next + VarintSize(v.g),
             MergeInner(b, v.next, v.next + VarintSize(v.g),
                        IF m.ty = ty THEN m ELSE Msg(ty, <<>>, 0, 0),
                        RecursionLimit - 1))

WrapperSkipped(b, m, side, n) ==
    IF n = 0 THEN DecodeErr ELSE MergeWrapper(b, n, m, side)

WrapperField(b, m, side, k) ==
    IF ~k.ok THEN DecodeErr
    ELSE IF k.tag \in {1, 2}
    THEN WrapperVariant(b, m, side, k, ReadVarint(b, k.next),
                        VariantOf(side, k.tag))
    ELSE WrapperSkipped(b, m, side,
                        SkipField(b, k.next, k.wt, k.tag, RecursionLimit))

\* Message::decode of a wrapper: the fields are merged in order; unknown
\* fields are skipped
MergeWrapper(b, pos, m, side) ==
    IF pos > Len(b) THEN m ELSE WrapperField(b, m, side, ReadKey(b, pos))

\* ClientMessageWrapper::decode(&buffer[..bytes_read])
DecodeClient(b) == MergeWrapper(b, 1, NoMsg, "client")
\* ServerMessageWrapper::decode, as the peer does on what it receives
DecodeServer(b) == MergeWrapper(b, 1, NoMsg, "server")

\* ---------------------------------------------------------------- dispatch
\* a + b leaves the int32 range
Overflows(a, b) == (a > 0 /\ b > I32Max - a) \/ (a < 0 /\ b < I32Min - a)

\* WrappingAdd with the operands subtracted
WrappingSub(a, b) == a - b

\* a + b in two's complement (the build without overflow checks)
WrappingAdd(a, b) ==
    IF a > 0 /\ b > I32Max - a THEN ((a - I32Max) - 1) + ((b - I32Max) - 1)
    ELSE IF a < 0 /\ b < I32Min - a THEN ((a + I32Max) + 1) + ((b + I32Max) + 1)
    ELSE a + b

\* Dispatch with the echoed content cut to its first byte
DispatchCut(m) ==
    IF m.ty = "echo"
    THEN EchoMessage(SubSeq(m.content, 1, Min(1, Len(m.content))))
    ELSE AddResponse(WrappingAdd(m.a, m.b))

\* the response the handler builds for a decoded request
Dispatch(m) ==
    IF m.ty = "echo" THEN EchoMessage(m.content)
    ELSE AddResponse(WrappingAdd(m.a, m.b))

\* what one read() returns of the receive queue
ReadLen(queue) == Min(BufSize, Len(queue))

\* ------------------------------------------------------------- environment
Fill(n, byte) == [i \in 1..n |-> byte]

\* An echo request longer than one buffer whose bytes after the first
\* BufSize are themselves the encoding of AddRequest{a = 7}.
Straddling ==
    LET tail == EncodeClient(AddRequest(7, 0))
        head == 6   \* key, 2-byte length, key, 2-byte length
    IN  EchoMessage(Fill(BufSize - head, 115) \o tail)

\* What a peer may send: requests, and raw bytes that are no request.
CoreRequests == <<
    EchoMessage(<<104, 105>>),
    AddRequest(5, 15),
    AddRequest(I32Max, 1) >>
MoreRequests == <<
    EchoMessage(<<>>),
    EchoMessage(Fill(BufSize - 4, 115)),   \* encoded: BufSize + 2 bytes
    Straddling,
    AddRequest(10, 20),
    AddRequest(-8, 8) >>
Requests == CoreRequests \o MoreRequests
Malformed == <<255>>            \* a varint cut short
EmptyEnvelope == <<24, 1>>      \* field 3, which the envelope does not have
Payloads ==
    [i \in 1..Len(Requests) |-> EncodeClient(Requests[i])]
        \o <<Malformed, EmptyEnvelope>>
PayloadIds == 1..Len(Payloads)
MalformedId == Len(Requests) + 1
CoreIds == (1..Len(CoreRequests)) \cup {MalformedId}
IsRequest(p) == p <= Len(Requests)

\* ------------------------------------------------------------------- state
VARIABLES
    is_running,   \* Server.is_running
    clients,      \* Server.clients: the registry of worker handles
    pcRun,        \* where the thread calling run() is
    joining,      \* the handle run() has popped and is joining (0: none)
    joined,       \* handles run() has joined
    pcStop,       \* where the thread calling stop() is
    stopLog,      \* what the last finished stop() logged
    conn,         \* per peer: "fresh", "pending" (in the backlog), "accepted"
    closed,       \* per peer: the peer has disconnected
    inbuf,        \* per connection: bytes sent and not yet read
    hstate,       \* per connection: its handler thread
    written,      \* per connection: the payloads handed to write_all
    log,          \* per connection: what each read of n > 0 bytes decoded to
    reqs,         \* per connection: the payloads the peer sent (ids)
    serial        \* per connection: every send so far waited for the reply

server == <<is_running, clients, pcRun, joining, joined>>
stopper == <<pcStop, stopLog>>
wire == <<conn, closed, inbuf, reqs, serial>>
handlers == <<hstate, written, log>>
vars == <<server, stopper, wire, handlers>>

\* Server::new: bound, not running, empty registry; no peer yet
Init ==
    /\ is_running = FALSE
    /\ clients = <<>>
    /\ pcRun = "idle"
    /\ joining = 0
    /\ joined = {}
    /\ pcStop = "idle"
    /\ stopLog = "none"
    /\ conn = [c \in Conns |-> "fresh"]
    /\ closed = [c \in Conns |-> FALSE]
    /\ inbuf = [c \in Conns |-> <<>>]
    /\ hstate = [c \in Conns |-> "none"]
    /\ written = [c \in Conns |-> <<>>]
    /\ log = [c \in Conns |-> <<>>]
    /\ reqs = [c \in Conns |-> <<>>]
    /\ serial = [c \in Conns |-> TRUE]

\* ------------------------------------------------------------------- peers
RECURSIVE SumLen(_, _)
SumLen(f, n) == IF n = 0 THEN 0 ELSE Len(f[n]) + SumLen(f, n - 1)
TotalSent == SumLen(reqs, NumConns)

\* the responses that reached the peer: a failed write_all delivers nothing
Delivered(c) ==
    IF hstate[c] = "write_err" THEN SubSeq(written[c], 1, Len(written[c]) - 1)
    ELSE written[c]

Connect(c) ==
    /\ conn[c] = "fresh"
    /\ conn' = [conn EXCEPT ![c] = "pending"]
    /\ UNCHANGED <<server, stopper, handlers, closed, inbuf, reqs, serial>>

Send(c, p) ==
    /\ conn[c] # "fresh"
    /\ ~closed[c]
    /\ TotalSent < MaxSends
    /\ inbuf' = [inbuf EXCEPT ![c] = @ \o Payloads[p]]
    /\ reqs' = [reqs EXCEPT ![c] = Append(@, p)]
    /\ serial' = [serial EXCEPT ![c] = @ /\ Len(Delivered(c)) = Len(reqs[c])]
    /\ UNCHANGED <<server, stopper, handlers, conn, closed>>

Disconnect(c) ==
    /\ conn[c] # "fresh"
    /\ ~closed[c]
    /\ closed' = [closed EXCEPT ![c] = TRUE]
    /\ UNCHANGED <<server, stopper, handlers, conn, inbuf, reqs, serial>>

\* ---------------------------------------------------------- Client::handle
\* WriteAll on one stream shared by every handler
WriteAllShared(c, payload, ok) ==
    /\ written' = [written EXCEPT ![1] = Append(@, payload)]
    /\ hstate' = [hstate EXCEPT ![c] = IF ok THEN "running" ELSE "write_err"]

\* write_all(&payload)?: the payload is handed to the stream; if the write
\* fails the error ends handle()
WriteAll(c, payload, ok) ==
    /\ written' = [written EXCEPT ![c] = Append(@, payload)]
    /\ hstate' = [hstate EXCEPT ![c] = IF ok THEN "running" ELSE "write_err"]

\* HandleDecoded with a decode failure ending the loop
HandleDecodedStrict(c, n, m) ==
    /\ inbuf' = [inbuf EXCEPT ![c] = SubSeq(@, n + 1, Len(@))]
    /\ log' = [log EXCEPT ![c] = Append(@, m.ty)]
    /\ \/ /\ m.ty \in {"echo", "add"}
          /\ \E ok \in BOOLEAN : WriteAll(c, EncodeServer(Dispatch(m)), ok)
       \/ /\ m.ty = "add"
          /\ Overflows(m.a, m.b)
          /\ hstate' = [hstate EXCEPT ![c] = "panicked"]
          /\ UNCHANGED written
       \/ /\ m.ty = "none"
          /\ UNCHANGED <<hstate, written>>
       \/ /\ m.ty = "error"
          /\ hstate' = [hstate EXCEPT ![c] = "read_err"]
          /\ UNCHANGED written

\* HandleDecoded that answers an envelope with no variant by an empty one
HandleDecodedAnswerNone(c, n, m) ==
    /\ inbuf' = [inbuf EXCEPT ![c] = SubSeq(@, n + 1, Len(@))]
    /\ log' = [log EXCEPT ![c] = Append(@, m.ty)]
    /\ \/ /\ m.ty \in {"echo", "add"}
          /\ \E ok \in BOOLEAN : WriteAll(c, EncodeServer(Dispatch(m)), ok)
       \/ /\ m.ty = "add"
          /\ Overflows(m.a, m.b)
          /\ hstate' = [hstate EXCEPT ![c] = "panicked"]
          /\ UNCHANGED written
       \/ /\ m.ty = "none"
          /\ \E ok \in BOOLEAN : WriteAll(c, EncodeServer(NoMsg), ok)
       \/ /\ m.ty = "error"
          /\ UNCHANGED <<hstate, written>>

\* the match on the decoded envelope m of a read of n bytes
HandleDecoded(c, n, m) ==
    /\ inbuf' = [inbuf EXCEPT ![c] = SubSeq(@, n + 1, Len(@))]
    /\ log' = [log EXCEPT ![c] = Append(@, m.ty)]
    /\ \/ /\ m.ty \in {"echo", "add"}
          /\ \E ok \in BOOLEAN : WriteAll(c, EncodeServer(Dispatch(m)), ok)
       \/ /\ m.ty = "add"
          /\ Overflows(m.a, m.b)      \* overflow checks on: the thread panics
          /\ hstate' = [hstate EXCEPT ![c] = "panicked"]
          /\ UNCHANGED written
       \/ /\ m.ty \in {"none", "error"}
          /\ UNCHANGED <<hstate, written>>

HandleBytes(c, n) == HandleDecoded(c, n, DecodeClient(SubSeq(inbuf[c], 1, n)))

\* Ok(bytes_read): decode the bytes of this read, dispatch, write
HandleRead(c) ==
    /\ hstate[c] = "running"
    /\ inbuf[c] # <<>>
    /\ HandleBytes(c, ReadLen(inbuf[c]))
    /\ UNCHANGED <<server, stopper, conn, closed, reqs, serial>>

\* HandleEof taken also when the peer has not closed (a would-block read)
HandleEofEarly(c) ==
    /\ hstate[c] = "running"
    /\ inbuf[c] = <<>>
    /\ hstate' = [hstate EXCEPT ![c] = "eof"]
    /\ UNCHANGED <<server, stopper, wire, written, log>>

\* Ok(0): the peer closed; break
HandleEof(c) ==
    /\ hstate[c] = "running"
    /\ inbuf[c] = <<>>
    /\ closed[c]
    /\ hstate' = [hstate EXCEPT ![c] = "eof"]
    /\ UNCHANGED <<server, stopper, wire, written, log>>

\* Err(WouldBlock): sleep and read again
HandleWouldBlock(c) ==
    /\ hstate[c] = "running"
    /\ inbuf[c] = <<>>
    /\ ~closed[c]
    /\ UNCHANGED vars

\* HandleReadError whose error also ends the accept loop
HandleReadErrorFatal(c) ==
    /\ hstate[c] = "running"
    /\ hstate' = [hstate EXCEPT ![c] = "read_err"]
    /\ pcRun' = "drain"
    /\ UNCHANGED <<is_running, clients, joining, joined, stopper, wire,
                   written, log>>

\* Err(e): break
HandleReadError(c) ==
    /\ hstate[c] = "running"
    /\ hstate' = [hstate EXCEPT ![c] = "read_err"]
    /\ UNCHANGED <<server, stopper, wire, written, log>>

\* ------------------------------------------------------------- Server::run
RunCall ==
    /\ pcRun \in {"idle", "returned"}
    /\ pcRun' = "entered"
    /\ UNCHANGED <<is_running, clients, joining, joined, stopper, wire, handlers>>

\* self.is_running.store(true)
RunStore ==
    /\ pcRun = "entered"
    /\ is_running' = TRUE
    /\ pcRun' = "loop"
    /\ UNCHANGED <<clients, joining, joined, stopper, wire, handlers>>

\* RunLoad that never sees the flag cleared
RunLoadStale ==
    /\ pcRun = "loop"
    /\ pcRun' = "accept"
    /\ UNCHANGED <<is_running, clients, joining, joined, stopper, wire,
                   handlers>>

\* while self.is_running.load()
RunLoad ==
    /\ pcRun = "loop"
    /\ pcRun' = IF is_running THEN "accept" ELSE "drain"
    /\ UNCHANGED <<is_running, clients, joining, joined, stopper, wire,
                   handlers>>

\* RunAcceptOk that spawns the handler without pushing its handle
RunAcceptOkUnregistered(c) ==
    /\ pcRun = "accept"
    /\ conn[c] = "pending"
    /\ conn' = [conn EXCEPT ![c] = "accepted"]
    /\ hstate' = [hstate EXCEPT ![c] = "running"]
    /\ pcRun' = "loop"
    /\ UNCHANGED <<is_running, clients, joining, joined, stopper, closed,
                   inbuf, reqs, serial, written, log>>

\* accept() = Ok: spawn the handler thread, push its handle
RunAcceptOk(c) ==
    /\ pcRun = "accept"
    /\ conn[c] = "pending"
    /\ conn' = [conn EXCEPT ![c] = "accepted"]
    /\ hstate' = [hstate EXCEPT ![c] = "running"]
    /\ clients' = Append(clients, c)
    /\ pcRun' = "loop"
    /\ UNCHANGED <<is_running, joining, joined, stopper, closed, inbuf,
                   reqs, serial, written, log>>

\* RunAcceptWouldBlock that clears the running flag when no peer waits
RunAcceptWouldBlockClearing ==
    /\ pcRun = "accept"
    /\ \A c \in Conns : conn[c] # "pending"
    /\ pcRun' = "loop"
    /\ is_running' = FALSE
    /\ UNCHANGED <<clients, joining, joined, stopper, wire, handlers>>

\* accept() = Err(WouldBlock): sleep
RunAcceptWouldBlock ==
    /\ pcRun = "accept"
    /\ \A c \in Conns : conn[c] # "pending"
    /\ pcRun' = "loop"
    /\ UNCHANGED <<is_running, clients, joining, joined, stopper, wire,
                   handlers>>

\* RunAcceptError whose error ends the accept loop
RunAcceptErrorFatal ==
    /\ pcRun = "accept"
    /\ pcRun' = "drain"
    /\ UNCHANGED <<is_running, clients, joining, joined, stopper, wire,
                   handlers>>

\* accept() = Err(e): log
RunAcceptError ==
    /\ pcRun = "accept"
    /\ pcRun' = "loop"
    /\ UNCHANGED <<is_running, clients, joining, joined, stopper, wire,
                   handlers>>

\* while let Some(handle) = clients.pop()
RunPop ==
    /\ pcRun = "drain"
    /\ clients # <<>>
    /\ joining' = clients[Len(clients)]
    /\ clients' = SubSeq(clients, 1, Len(clients) - 1)
    /\ pcRun' = "join"
    /\ UNCHANGED <<is_running, joined, stopper, wire, handlers>>

\* RunJoin that does not wait for the thread to end
RunJoinDetached ==
    /\ pcRun = "join"
    /\ joined' = joined \cup {joining}
    /\ joining' = 0
    /\ pcRun' = "drain"
    /\ UNCHANGED <<is_running, clients, stopper, wire, handlers>>

\* RunJoin that returns from run() when the joined thread had panicked
RunJoinPropagate ==
    /\ pcRun = "join"
    /\ hstate[joining] # "running"
    /\ joined' = joined \cup {joining}
    /\ joining' = 0
    /\ pcRun' = IF hstate[joining] = "panicked" THEN "returned" ELSE "drain"
    /\ UNCHANGED <<is_running, clients, stopper, wire, handlers>>

\* handle.join(): returns when the thread has ended (Err if it panicked)
RunJoin ==
    /\ pcRun = "join"
    /\ hstate[joining] # "running"
    /\ joined' = joined \cup {joining}
    /\ joining' = 0
    /\ pcRun' = "drain"
    /\ UNCHANGED <<is_running, clients, stopper, wire, handlers>>

\* pop() = None: Ok(())
RunReturn ==
    /\ pcRun = "drain"
    /\ clients = <<>>
    /\ pcRun' = "returned"
    /\ UNCHANGED <<is_running, clients, joining, joined, stopper, wire,
                   handlers>>

\* ------------------------------------------------------------ Server::stop
\* StopBegin that waits also when the server is not running
StopBeginWaiting ==
    /\ pcStop \in {"idle", "returned"}
    /\ pcStop' = IF is_running THEN "store" ELSE "wait"
    /\ UNCHANGED <<stopLog, server, wire, handlers>>

\* if self.is_running.load()
StopBegin ==
    /\ pcStop \in {"idle", "returned"}
    /\ IF is_running
       THEN pcStop' = "store" /\ UNCHANGED stopLog
       ELSE pcStop' = "returned" /\ stopLog' = "noop"
    /\ UNCHANGED <<server, wire, handlers>>

\* StopStore that also ends every running handler
StopStoreKill ==
    /\ pcStop = "store"
    /\ is_running' = FALSE
    /\ pcStop' = "wait"
    /\ hstate' = [c \in Conns |->
                     IF hstate[c] = "running" THEN "eof" ELSE hstate[c]]
    /\ UNCHANGED <<clients, pcRun, joining, joined, stopLog, wire,
                   written, log>>

\* self.is_running.store(false)
StopStore ==
    /\ pcStop = "store"
    /\ is_running' = FALSE
    /\ pcStop' = "wait"
    /\ UNCHANGED <<clients, pcRun, joining, joined, stopLog, wire,
                   handlers>>

\* while self.is_running.load()
StopWaitLoad ==
    /\ pcStop = "wait"
    /\ IF is_running
       THEN pcStop' = "spin" /\ UNCHANGED stopLog
       ELSE pcStop' = "returned" /\ stopLog' = "stopped"
    /\ UNCHANGED <<server, wire, handlers>>

\* StopTimeout whose ceiling never elapses: the loop sleeps on
StopTimeoutNever ==
    /\ pcStop = "spin"
    /\ pcStop' = "wait"
    /\ UNCHANGED <<server, stopLog, wire, handlers>>

\* start_time.elapsed() > 5 s: break
StopTimeout ==
    /\ pcStop = "spin"
    /\ pcStop' = "returned"
    /\ stopLog' = "timeout"
    /\ UNCHANGED <<server, wire, handlers>>

\* thread::sleep(100 ms)
StopSleep ==
    /\ pcStop = "spin"
    /\ pcStop' = "wait"
    /\ UNCHANGED <<server, stopLog, wire, handlers>>

\* ----------------------------------------------------------- specification
Handler(c) ==
    HandleRead(c) \/ HandleEof(c) \/ HandleWouldBlock(c) \/ HandleReadError(c)
Accept ==
    (\E c \in Conns : RunAcceptOk(c)) \/ RunAcceptWouldBlock \/ RunAcceptError
Drain == RunPop \/ RunJoin \/ RunReturn
Stop == StopBegin \/ StopStore \/ StopWaitLoad \/ StopTimeout \/ StopSleep

\* The server's whole life: run(), stop(), the drain, run() again; peers
\* connect, send MaxLifeSends short messages in all, disconnect.
LifeSend(c) == TotalSent < MaxLifeSends /\ \E p \in CoreIds : Send(c, p)
Next ==
    \/ RunCall \/ RunStore \/ RunLoad \/ Accept \/ Drain
    \/ Stop
    \/ \E c \in Conns :
          Connect(c) \/ Disconnect(c) \/ LifeSend(c) \/ Handler(c)

Spec == Init /\ [][Next]_vars

\* The server while nobody calls stop(): peers send MaxSends messages in
\* all, of every kind.  A handler reads no state of the server, so what a
\* handler does here is what it does under Spec.
ServeNext ==
    \/ RunCall \/ RunStore \/ RunLoad \/ Accept
    \/ \E c \in Conns :
          \/ Connect(c) \/ Disconnect(c) \/ Handler(c)
          \/ \E p \in PayloadIds : Send(c, p)

ServeSpec == Init /\ [][ServeNext]_vars

\* a handler whose read would return bytes or end of file
HandlerReady(c) == hstate[c] = "running" /\ (inbuf[c] # <<>> \/ closed[c])
\* WF_vars(HandleRead(c) \/ HandleEof(c)), written out with the enabling
\* condition of the two actions
HandlerFair(c) ==
    \/ []<>(~HandlerReady(c))
    \/ []<><<HandleRead(c) \/ HandleEof(c)>>_vars

\* Fairness: the threads of the server are scheduled (run(), stop() once
\* called, every handler), and the clock of stop()'s wait advances.
Fairness ==
    /\ WF_vars(RunStore \/ RunLoad \/ Accept \/ Drain)
    /\ WF_vars(StopStore \/ StopWaitLoad)
    /\ SF_vars(StopTimeout)
    /\ \A c \in Conns : HandlerFair(c)

\* every peer that has connected disconnects in the end
PeersLeave == \A c \in Conns : WF_vars(Disconnect(c))

FairSpec == Spec /\ Fairness /\ PeersLeave

\* Only the thread of stop() is scheduled and its clock advances; run(),
\* the handlers and the peers may do anything or nothing.
StopFairSpec ==
    Spec /\ WF_vars(StopStore \/ StopWaitLoad) /\ SF_vars(StopTimeout)

\* =================================================================== claims
\* a step in which c's handler got n > 0 bytes from read()
ReadBy(c) == log'[c] # log[c]
\* what those bytes decode to
ReadMsg(c) == DecodeClient(SubSeq(inbuf[c], 1, ReadLen(inbuf[c])))
\* the step wrote exactly one response on c, which decodes to r, and
\* nothing on any other connection
WroteOne(c, r) ==
    /\ Len(written'[c]) = Len(written[c]) + 1
    /\ SubSeq(written'[c], 1, Len(written[c])) = written[c]
    /\ DecodeServer(written'[c][Len(written'[c])]) = r
    /\ \A d \in Conns \ {c} : written'[d] = written[d]
Range(f) == {f[i] : i \in DOMAIN f}
Spawned(c) == hstate[c] # "none"

\* C1: whenever the bytes of one read decode to EchoRequest{content = s},
\* the handler writes exactly one response on that connection, and it is
\* EchoResponse{content = s}.
EchoStep(c, m) == m.ty = "echo" => WroteOne(c, EchoMessage(m.content))
C1_EchoPassthrough ==
    [][\A c \in Conns : ReadBy(c) => EchoStep(c, ReadMsg(c))]_vars
C1_Witness ==
    \E c \in Conns :
        /\ log[c] = <<"echo">>
        /\ Len(written[c]) = 1
        /\ DecodeServer(written[c][1]) = EchoMessage(<<104, 105>>)

\* C2 (as claimed): a peer that sent one echo request of any length has
\* received EchoResponse with the same content once the handler has read
\* all its bytes and waits for more.
C2_EchoAnyLength ==
    \A c \in Conns :
        (/\ Len(reqs[c]) = 1
         /\ reqs[c][1] <= Len(Requests)
         /\ Requests[reqs[c][1]].ty = "echo"
         /\ inbuf[c] = <<>>
         /\ hstate[c] = "running")
        => /\ Len(Delivered(c)) = 1
           /\ DecodeServer(Delivered(c)[1]) = Requests[reqs[c][1]]

\* C3: whenever the bytes of one read decode to AddRequest{a, b} with a + b
\* an int32, the handler writes exactly one response on that connection,
\* and it is AddResponse{result = a + b}.
AddStep(c, m) ==
    (m.ty = "add" /\ ~Overflows(m.a, m.b))
    => WroteOne(c, AddResponse(m.a + m.b)) /\ hstate'[c] # "panicked"
C3_AddSum ==
    [][\A c \in Conns : ReadBy(c) => AddStep(c, ReadMsg(c))]_vars
C3_Witness ==
    \E c \in Conns :
        /\ log[c] = <<"add">>
        /\ Len(written[c]) = 1
        /\ DecodeServer(written[c][1]) = AddResponse(30)

\* C4 (as claimed): on a connection whose peer sends requests serially,
\* the i-th response written answers the i-th request sent.
C4_InOrder ==
    \A c \in Conns :
        (serial[c] /\ \A i \in 1..Len(reqs[c]) : IsRequest(reqs[c][i]))
        => /\ Len(written[c]) <= Len(reqs[c])
           /\ \A i \in 1..Len(written[c]) :
                 DecodeServer(written[c][i]) = Dispatch(Requests[reqs[c][i]])

\* C5: with several connections served concurrently a response is written
\* only on the connection its request arrived on: a connection that sent
\* nothing is written nothing, and one that sent a single AddRequest is
\* written, once its handler has read it, its own AddResponse and nothing
\* else.
OwnSum(c, r) ==
    (r.ty = "add" /\ ~Overflows(r.a, r.b)) =>
        IF log[c] = <<>> THEN written[c] = <<>>
        ELSE /\ Len(written[c]) = 1
             /\ DecodeServer(written[c][1]) = AddResponse(r.a + r.b)
C5_NoCrossTalk ==
    \A c \in Conns :
        /\ reqs[c] = <<>> => written[c] = <<>>
        /\ (Len(reqs[c]) = 1 /\ reqs[c][1] <= Len(Requests))
           => OwnSum(c, Requests[reqs[c][1]])
C5_Witness ==
    \E c, d \in Conns :
        /\ c # d
        /\ Len(reqs[c]) = 1 /\ Len(reqs[d]) = 1
        /\ reqs[c][1] <= Len(Requests) /\ reqs[d][1] <= Len(Requests)
        /\ Requests[reqs[c][1]] = AddRequest(5, 15)
        /\ Requests[reqs[d][1]] = AddRequest(10, 20)
        /\ Len(written[c]) = 1 /\ DecodeServer(written[c][1]) = AddResponse(20)
        /\ Len(written[d]) = 1 /\ DecodeServer(written[d][1]) = AddResponse(30)

\* C6: a read whose bytes fail to decode writes nothing and leaves the
\* handler running, and a request decoded from a later read on that
\* connection is answered with its response.
MalformedStep(c, m) ==
    /\ m.ty = "error" => (hstate'[c] = "running" /\ written' = written)
    /\ ("error" \in Range(log[c]) /\ m.ty = "echo")
       => WroteOne(c, EchoMessage(m.content))
    /\ ("error" \in Range(log[c]) /\ m.ty = "add" /\ ~Overflows(m.a, m.b))
       => WroteOne(c, AddResponse(m.a + m.b))
C6_MalformedSurvived ==
    [][\A c \in Conns : ReadBy(c) => MalformedStep(c, ReadMsg(c))]_vars
C6_Witness ==
    \E c \in Conns :
        /\ reqs[c] = <<MalformedId, 2>>
        /\ log[c] = <<"error", "add">>
        /\ Len(written[c]) = 1
        /\ DecodeServer(written[c][1]) = AddResponse(20)

\* C7: once stop() has found running true, run() leaves its accept loop,
\* joins every registered worker and returns (every peer disconnecting in
\* the end, which FairSpec assumes).
C7_StopEndsRun ==
    (pcStop = "store") ~> (pcRun = "returned" /\ clients = <<>> /\ joining = 0)
C7_Witness ==
    /\ pcRun = "returned"
    /\ stopLog = "stopped"
    /\ \E c \in Conns : c \in joined /\ hstate[c] = "eof"

\* C8 (as claimed): with peers that only connect and disconnect, once a
\* stop() that signalled the server has returned, and every peer that
\* connected has disconnected, every spawned worker has been joined.
C8_JoinedWhenStopReturns ==
    (/\ pcStop = "returned"
     /\ stopLog = "stopped"
     /\ \A c \in Conns : reqs[c] = <<>> /\ (conn[c] # "fresh" => closed[c]))
    => \A c \in Conns : Spawned(c) => c \in joined

\* C9: a stop() that finds running false changes nothing of the server, of
\* the registry or of any connection, and returns at once.
StopCalled == pcStop \in {"idle", "returned"} /\ stopper' # stopper
C9_StopIdempotent ==
    [][(StopCalled /\ ~is_running)
       => /\ pcStop' = "returned"
          /\ stopLog' = "noop"
          /\ UNCHANGED <<server, wire, handlers>>]_vars
C9_Witness ==
    /\ pcStop = "returned"
    /\ stopLog = "noop"
    /\ pcRun = "returned"

\* C10: whenever run() has returned the registry is empty, every worker it
\* spawned has been joined and has ended.
C10_DrainedOnReturn ==
    pcRun = "returned" =>
        /\ clients = <<>>
        /\ joining = 0
        /\ \A c \in Conns : Spawned(c) => (c \in joined /\ hstate[c] # "running")
C10_Witness ==
    /\ pcRun = "returned"
    /\ Cardinality(joined) = NumConns

\* C11: a step of stop() changes nothing but the running flag (and stop()'s
\* own position): not the registry, the drain, a connection or a handler;
\* and a handler's read made while running is false is answered as any
\* other.
StopStep == stopper' # stopper \/ (pcStop = "store" /\ is_running' # is_running)
Served(c, m) ==
    /\ m.ty = "echo" => WroteOne(c, EchoMessage(m.content))
    /\ (m.ty = "add" /\ ~Overflows(m.a, m.b))
       => WroteOne(c, AddResponse(m.a + m.b))
C11_StopFrame ==
    [][/\ StopStep => UNCHANGED <<clients, pcRun, joining, joined, wire,
                                  handlers>>
       /\ \A c \in Conns :
             (ReadBy(c) /\ ~is_running /\ stopLog = "stopped")
             => Served(c, ReadMsg(c))]_vars
C11_Witness ==
    /\ pcStop = "returned"
    /\ stopLog = "stopped"
    /\ ~is_running
    /\ pcRun = "join"
    /\ \E c \in Conns :
          /\ hstate[c] = "running"
          /\ joining = c
          /\ log[c] = <<"add">>
          /\ Len(written[c]) = 1
          /\ DecodeServer(written[c][1]) = AddResponse(20)

\* C12: a stop() that has been called returns in the end, whatever run(),
\* the handlers and the peers do: also when a connection stays open for
\* ever and when run() sets running true again.
C12_StopReturns == (pcStop \in {"store", "wait", "spin"}) ~> (pcStop = "returned")
C12_Witness ==
    /\ pcStop = "returned"
    /\ stopLog = "timeout"
    /\ is_running
    /\ \E c \in Conns : hstate[c] = "running" /\ ~closed[c]

\* C13: the step in which a handler ends on a read error or a failed write
\* changes nothing of run() (flag, registry, position in the accept loop)
\* and nothing of any other connection or handler; and while some handler
\* has ended that way, a read of another handler is answered as any other.
Failed(c) == hstate[c] \in {"read_err", "write_err"}
FailStep(c) == hstate[c] = "running" /\ hstate'[c] \in {"read_err", "write_err"}
OthersUntouched(c) ==
    \A d \in Conns \ {c} :
        /\ hstate'[d] = hstate[d]
        /\ written'[d] = written[d]
        /\ log'[d] = log[d]
        /\ inbuf'[d] = inbuf[d]
        /\ conn'[d] = conn[d]
        /\ closed'[d] = closed[d]
C13_IoErrorIsolated ==
    [][\A c \in Conns :
          /\ FailStep(c) => (UNCHANGED server /\ OthersUntouched(c))
          /\ (ReadBy(c) /\ \E d \in Conns \ {c} : Failed(d))
             => Served(c, ReadMsg(c))]_vars
C13_Witness ==
    /\ is_running
    /\ pcRun \in {"loop", "accept"}
    /\ \E c, d \in Conns :
          /\ hstate[c] = "write_err"
          /\ hstate[d] = "running"
          /\ log[d] = <<"add">>
          /\ Len(written[d]) = 1
          /\ DecodeServer(written[d][1]) = AddResponse(30)

\* C14: an accept() that returns without a connection (an error, or
\* would-block) sends run() back to the test of its loop and changes
\* neither the flag, the registry nor any handler; and whenever run() is at
\* accept() with a connection pending it can accept it, whatever accept()
\* returned before.
AcceptNothing == pcRun = "accept" /\ pcRun' # pcRun /\ conn' = conn
C14_AcceptErrorIgnored ==
    /\ [][AcceptNothing
          => /\ pcRun' = "loop"
             /\ UNCHANGED <<is_running, clients, joining, joined, handlers>>]_vars
    /\ [](\A c \in Conns :
            (pcRun = "accept" /\ conn[c] = "pending") => ENABLED RunAcceptOk(c))
C14_Witness ==
    /\ pcRun = "loop"
    /\ is_running
    /\ clients = <<2>>
    /\ conn = <<"pending", "accepted">>
    /\ hstate = <<"none", "running">>

\* C15: joining a worker that panicked sends run() on to the next entry of
\* the registry, and a drain that meets a panicked worker still ends with
\* the registry empty and run() returned.
JoinedPanicked ==
    pcRun = "join" /\ pcRun' # pcRun /\ hstate[joining] = "panicked"
C15_PanicDrained ==
    /\ [][JoinedPanicked
          => /\ pcRun' = "drain"
             /\ joined' = joined \cup {joining}
             /\ clients' = clients]_vars
    /\ ((pcRun = "drain" /\ \E c \in Conns : hstate[c] = "panicked")
          ~> (pcRun = "returned" /\ clients = <<>> /\ joining = 0))
C15_Witness ==
    /\ pcRun = "join"
    /\ \E c, d \in Conns :
          /\ c # d
          /\ hstate[c] = "panicked"
          /\ c \in joined
          /\ joining = d

\* C16 (as claimed): once a stop() that found running true has cleared
\* the flag and returned, and while the flag stays false, no step accepts
\* a connection, spawns a handler or pushes to the registry.
StopHasReturned == pcStop = "returned" /\ stopLog = "stopped" /\ ~is_running
C16_NoAcceptAfterStop ==
    [][StopHasReturned
       => /\ \A c \in Conns : conn'[c] = "accepted" => conn[c] = "accepted"
          /\ \A c \in Conns : Spawned(c)' => Spawned(c)
          /\ Len(clients') <= Len(clients)]_vars

\* C17: running is false after construction; it becomes true only by the
\* store at the entry of run() and false only by the store of stop(); and
\* run() reaches accept() only from its loop test, having read running
\* as true.
FlagWrittenByOwner ==
    is_running' # is_running
    => \/ is_running' /\ pcRun = "entered" /\ pcRun' = "loop"
       \/ ~is_running' /\ pcStop = "store" /\ pcStop' = "wait"
AcceptAfterTrue ==
    (pcRun' = "accept" /\ pcRun # "accept") => (pcRun = "loop" /\ is_running)
C17_FlagOwners ==
    /\ ~is_running
    /\ [][FlagWrittenByOwner /\ AcceptAfterTrue]_vars
C17_Witness ==
    /\ is_running
    /\ pcRun = "accept"
    /\ stopLog = "stopped"
    /\ pcStop = "returned"

\* C18: a read consumes all the bytes it returned and decodes them as one
\* envelope; the step writes at most one response, and one only when that
\* envelope holds a request; an envelope with no variant is answered
\* nothing and leaves the handler running.
OneEnvelope(c, m) ==
    /\ log'[c] = Append(log[c], m.ty)
    /\ inbuf'[c] = SubSeq(inbuf[c], ReadLen(inbuf[c]) + 1, Len(inbuf[c]))
    /\ Len(written'[c]) <= Len(written[c]) + 1
    /\ written' # written => m.ty \in {"echo", "add"}
    /\ m.ty = "none" => (written' = written /\ hstate'[c] = "running")
Ends(c) == hstate[c] = "running" /\ hstate'[c] # "running"
EndsByEof(c) ==
    /\ hstate'[c] = "eof"
    /\ inbuf[c] = <<>> /\ closed[c]
    /\ written' = written /\ log' = log
EndsByReadError(c) ==
    hstate'[c] = "read_err" /\ written' = written /\ log' = log
EndsByWriteError(c) ==
    /\ hstate'[c] = "write_err"
    /\ ReadBy(c)
    /\ Len(written'[c]) = Len(written[c]) + 1
\* the handler thread panics: a + b of a decoded AddRequest overflows
EndsByPanic(c, m) ==
    /\ hstate'[c] = "panicked"
    /\ ReadBy(c)
    /\ m.ty = "add" /\ Overflows(m.a, m.b)
    /\ written' = written
\* a decode failure or an envelope with no variant leaves the loop running
NeverEnds(c, m) == m.ty \in {"none", "error"} => hstate'[c] = "running"

\* C19 (as claimed): a handler's loop ends only by end of file, by a failed
\* read or by a failed write.
C19_ThreeEnds ==
    [][\A c \in Conns :
          /\ Ends(c)
             => EndsByEof(c) \/ EndsByReadError(c) \/ EndsByWriteError(c)
          /\ ReadBy(c) => NeverEnds(c, ReadMsg(c))]_vars

\* C19 (amended): a handler's loop ends only by end of file, by a failed
\* read, by a failed write, or by the panic of a + b overflowing int32; a
\* would-block read, a decode failure and an envelope with no variant
\* never end it.
C19_FourEnds ==
    [][\A c \in Conns :
          /\ Ends(c)
             => \/ EndsByEof(c) \/ EndsByReadError(c) \/ EndsByWriteError(c)
                \/ EndsByPanic(c, ReadMsg(c))
          /\ ReadBy(c) => NeverEnds(c, ReadMsg(c))]_vars
C19_Witness ==
    \E c, d \in Conns :
        /\ hstate[c] = "panicked" /\ log[c] = <<"add">> /\ written[c] = <<>>
        /\ hstate[d] = "running" /\ log[d] = <<"error">>

\* C20: every accepted connection has exactly one handler and one handle,
\* which is in the registry, being joined, or joined; while run() is in
\* its accept loop nothing is being joined; the registry grows only by the
\* push of an accept, shrinks only by the pop of the drain, and handles
\* are joined only by the drain (so the handle of a handler that has ended
\* stays in the registry until then, and an invocation of run() pushes
\* nothing once its drain has begun).
Handles(c) ==
    Cardinality({i \in DOMAIN clients : clients[i] = c})
        + (IF joining = c THEN 1 ELSE 0)
        + (IF c \in joined THEN 1 ELSE 0)
OneHandleEach ==
    \A c \in Conns :
        /\ Spawned(c) <=> conn[c] = "accepted"
        /\ Handles(c) = (IF Spawned(c) THEN 1 ELSE 0)
InAcceptLoop == pcRun \in {"entered", "loop", "accept"}
RegistryStep ==
    /\ Len(clients') > Len(clients)
       => /\ pcRun = "accept" /\ pcRun' = "loop"
          /\ \E c \in Conns :
                /\ conn[c] = "pending" /\ hstate[c] = "none"
                /\ hstate'[c] = "running"
                /\ clients' = Append(clients, c)
    /\ Len(clients') < Len(clients)
       => /\ pcRun = "drain" /\ pcRun' = "join"
          /\ clients' = SubSeq(clients, 1, Len(clients) - 1)
          /\ joining' = clients[Len(clients)]
    /\ Len(clients') = Len(clients) => clients' = clients
    /\ joined' # joined
       => pcRun = "join" /\ pcRun' = "drain" /\ joined' = joined \cup {joining}
C20_RegistryDiscipline ==
    /\ [](OneHandleEach /\ (InAcceptLoop => joining = 0))
    /\ [][RegistryStep]_vars
C20_Witness ==
    /\ is_running
    /\ pcRun = "accept"
    /\ clients = <<1, 2>>
    /\ hstate[1] = "eof"
    /\ hstate[2] = "running"

\* One thread calls run() once, and stop() is called, any number of times,
\* only after that call of run() has begun.  With a single run() the flag
\* is never set again once stop() has cleared it, so stop()'s wait loop
\* ends at its first test.
RaceRunCall == pcRun = "idle" /\ RunCall
RaceStopBegin == pcRun # "idle" /\ StopBegin
RaceNext ==
    \/ RaceRunCall \/ RunStore \/ RunLoad \/ Accept \/ Drain
    \/ RaceStopBegin \/ StopStore \/ StopWaitLoad
    \/ \E c \in Conns :
          Connect(c) \/ Disconnect(c) \/ LifeSend(c) \/ Handler(c)
RaceSpec == Init /\ [][RaceNext]_vars /\ Fairness /\ PeersLeave

\* C21 (as claimed): once stop() has been called after the call of run()
\* began, run() leaves its accept loop in the end.
C21_SignalNotLost ==
    (pcStop # "idle") ~> (pcRun \in {"drain", "join", "returned"})

====
